---- MODULE Spec2Model ----
(***************************************************************************)
(* SkyMetropolis: the zustand game store (grid, economy and AI slices),    *)
(* the pure simulation functions it delegates to, and the useAiAdvisor /   *)
(* useGameLoop hooks that drive it.                                        *)
(***************************************************************************)
EXTENDS Integers, Sequences, FiniteSets, TLC

\* ---------------------------------------------------------------- bounds
\* Side of the modelled grid (the game uses 15).
GRID_SIZE == 2
\* Number of tiles (row-major from (0,0)) that the player clicks on.
MaxTiles == 1
\* The store takes no placeBuilding once MaxEdits builds and demolitions have
\* succeeded since the last reset; the application no click once AppEdits have.
MaxEdits == 5
AppEdits == 1
\* No tick is taken once stats.day has reached MaxDay.
MaxDay == 2
\* No further goal request is issued once MaxInFlight are outstanding.
MaxInFlight == 2
\* The simulation is applied to grids whose first SimTiles tiles (row-major)
\* hold any building, and to populations 0..MaxPop and around the cap.
SimTiles == 2
MaxPop == 12
\* The simulation alone is not stepped once stats.day has reached SimDays.
SimDays == 5
\* Date.now() takes the values 0..MaxNow.
MaxNow == 1
\* addNews keeps newsFeed.slice(-NEWS_KEPT) and appends the incoming item
\* (the game keeps 12).
NEWS_KEPT == 1

\* ------------------------------------------------------ program constants
INITIAL_MONEY == 1000
DEMOLISH_COST == 5
MAX_POP_PER_RESIDENTIAL == 50
NO_HOUSING_DECAY == 5

\* localStorage.getItem returns null: nothing was ever saved.
NoItem == [item |-> FALSE]

\* The absent goal (null / undefined currentGoal).
null == [absent |-> TRUE]
undefined == "undefined"

BuildingType == {"None", "Road", "Residential", "Commercial", "Industrial", "Park"}

BUILDINGS ==
  [t \in BuildingType |->
     CASE t = "None"        -> [cost |-> 0,   name |-> "Bulldoze", popGen |-> 0, incomeGen |-> 0]
       [] t = "Road"        -> [cost |-> 10,  name |-> "Road",     popGen |-> 0, incomeGen |-> 0]
       [] t = "Residential" -> [cost |-> 100, name |-> "House",    popGen |-> 5, incomeGen |-> 0]
       [] t = "Commercial"  -> [cost |-> 200, name |-> "Shop",     popGen |-> 0, incomeGen |-> 15]
       [] t = "Industrial"  -> [cost |-> 400, name |-> "Factory",  popGen |-> 0, incomeGen |-> 40]
       [] t = "Park"        -> [cost |-> 50,  name |-> "Park",     popGen |-> 1, incomeGen |-> 0]]

\* The tools the player selects with setTool: the bulldozer, the cheap house
\* and the dear factory (the store starts with the Road tool selected).
Tools == {"None", "Residential", "Industrial"}

Coord == 0 .. (GRID_SIZE - 1)

\* The tiles the player clicks on: the first MaxTiles tiles in row-major order.
ClickTiles == {c \in Coord \X Coord : c[2] * GRID_SIZE + c[1] < MaxTiles}

createInitialGrid ==
  [y \in Coord |-> [x \in Coord |-> [x |-> x, y |-> y, buildingType |-> "None"]]]

INITIAL_STATS == [money |-> INITIAL_MONEY, population |-> 0, day |-> 1]

VARIABLES
  grid,              \* GridSlice.grid, indexed grid[y][x]
  selectedTool,      \* GridSlice.selectedTool
  gameStarted,       \* EconomySlice.gameStarted
  isPaused,          \* EconomySlice.isPaused
  stats,             \* EconomySlice.stats
  aiEnabled,         \* AISlice.aiEnabled
  currentGoal,       \* AISlice.currentGoal (null when absent)
  isGeneratingGoal,  \* AISlice.isGeneratingGoal
  newsFeed,          \* AISlice.newsFeed
  inFlight,          \* fetchNewGoal calls suspended at an await
  effectPending,     \* a render with changed effect dependencies is due
  retryWait,         \* the last fetch to end produced no goal and no 15 s timer has fired since
  observed,          \* store states notified to subscribers inside the last command
  logged,            \* console.error messages written by the last command
  gridEdits,         \* builds and demolitions that succeeded since the last reset
  now,               \* Date.now()
  storage,           \* localStorage item 'sky_metropolis_save_v1' of the ref-based App
  loaded,            \* the ref-based App has run its load-on-mount effect
  newsInFlight,      \* fetchNews calls suspended at their await
  worldModule,       \* the module whose TrafficSystem is mounted: "IsoMap" or "Entities"
  carsState,         \* TrafficSystem carsState.current, six values a vehicle
  carsDeps,          \* the grid the vehicle effect last ran for (<<>> before mount)
  agentsState,       \* PopulationSystem agentsState.current, six values a pedestrian
  agentsDeps         \* the agentCount and grid the pedestrian effect last ran for

storeVars == <<grid, selectedTool, gameStarted, isPaused, stats, aiEnabled,
               currentGoal, isGeneratingGoal, newsFeed>>
hookVars == <<inFlight, effectPending, retryWait>>
\* State beside the store and the goal fetches: the ref-based App's saved
\* document and mount effect, the news requests that are outstanding.
\* The state of the 3D scene's agent systems.
worldVars == <<worldModule, carsState, carsDeps, agentsState, agentsDeps>>
outerVars == <<storage, loaded, newsInFlight, worldVars>>
vars == <<storeVars, hookVars, observed, logged, gridEdits, now, outerVars>>

Max(a, b) == IF a > b THEN a ELSE b
Min(a, b) == IF a < b THEN a ELSE b

\* No scene is mounted: the agent buffers are the empty arrays of their
\* useRef initialisers and no effect has run.
SceneUnmounted ==
  /\ worldModule = "IsoMap"
  /\ carsState = <<>>
  /\ carsDeps = <<>>
  /\ agentsState = <<>>
  /\ agentsDeps = <<>>

\* The store state a subscriber is called with after one set().
Snapshot(g, s, goal, news) ==
  [grid |-> g, stats |-> s, currentGoal |-> goal, newsFeed |-> news]

\* ------------------------------------------------------- pure simulation

\* The single pass over the grid of calculateNextDay, from tile index k on.
RECURSIVE gridPass(_, _)
gridPass(g, k) ==
  IF k >= GRID_SIZE * GRID_SIZE
    THEN [dailyIncome |-> 0, dailyPopGrowth |-> 0, residentialCount |-> 0]
    ELSE LET y == k \div GRID_SIZE
             x == k % GRID_SIZE
             type == g[y][x].buildingType
             rest == gridPass(g, k + 1)
         IN IF type # "None"
              THEN [dailyIncome |-> rest.dailyIncome + BUILDINGS[type].incomeGen,
                    dailyPopGrowth |-> rest.dailyPopGrowth + BUILDINGS[type].popGen,
                    residentialCount |-> rest.residentialCount
                                           + (IF type = "Residential" THEN 1 ELSE 0)]
              ELSE rest

calculateNextDay_decayAfterGrowth(currentStats, g) ==
  LET acc == gridPass(g, 0)
      maxPop == acc.residentialCount * MAX_POP_PER_RESIDENTIAL
      grown == currentStats.population + acc.dailyPopGrowth
      capped == IF grown > maxPop THEN maxPop ELSE grown
      newPop == IF acc.residentialCount = 0 /\ currentStats.population > 0
                  THEN Max(0, grown - NO_HOUSING_DECAY)
                  ELSE capped
  IN [money |-> currentStats.money + acc.dailyIncome,
      population |-> newPop,
      day |-> currentStats.day + 1]

calculateNextDay_noIncome(currentStats, g) ==
  LET acc == gridPass(g, 0)
      maxPop == acc.residentialCount * MAX_POP_PER_RESIDENTIAL
      grown == currentStats.population + acc.dailyPopGrowth
      capped == IF grown > maxPop THEN maxPop ELSE grown
      newPop == IF acc.residentialCount = 0 /\ currentStats.population > 0
                  THEN Max(0, currentStats.population - NO_HOUSING_DECAY)
                  ELSE capped
  IN [money |-> currentStats.money,
      population |-> newPop,
      day |-> currentStats.day + 1]

calculateNextDay_nocap(currentStats, g) ==
  LET acc == gridPass(g, 0)
      grown == currentStats.population + acc.dailyPopGrowth
      newPop == IF acc.residentialCount = 0 /\ currentStats.population > 0
                  THEN Max(0, currentStats.population - NO_HOUSING_DECAY)
                  ELSE grown
  IN [money |-> currentStats.money + acc.dailyIncome,
      population |-> newPop,
      day |-> currentStats.day + 1]

calculateNextDay(currentStats, g) ==
  LET acc == gridPass(g, 0)
      maxPop == acc.residentialCount * MAX_POP_PER_RESIDENTIAL
      grown == currentStats.population + acc.dailyPopGrowth
      capped == IF grown > maxPop THEN maxPop ELSE grown
      newPop == IF acc.residentialCount = 0 /\ currentStats.population > 0
                  THEN Max(0, currentStats.population - NO_HOUSING_DECAY)
                  ELSE capped
  IN [money |-> currentStats.money + acc.dailyIncome,
      population |-> newPop,
      day |-> currentStats.day + 1]

canAfford_always(currentMoney, type) == TRUE

canAfford(currentMoney, type) ==
  IF type = "None"
    THEN currentMoney >= DEMOLISH_COST
    ELSE currentMoney >= BUILDINGS[type].cost

\* Number of tiles of the grid whose buildingType is type.
countTiles(g, type) ==
  Cardinality({c \in Coord \X Coord : g[c[2]][c[1]].buildingType = type})

checkGoalCompletion_strict(g, s, goal) ==
  IF goal = null \/ goal.completed THEN FALSE
  ELSE IF goal.targetType = "money" /\ s.money > goal.targetValue THEN TRUE
  ELSE IF goal.targetType = "population" /\ s.population > goal.targetValue THEN TRUE
  ELSE IF goal.targetType = "building_count" /\ goal.buildingType # undefined
          /\ countTiles(g, goal.buildingType) > goal.targetValue THEN TRUE
  ELSE FALSE

checkGoalCompletion_countsAny(g, s, goal) ==
  IF goal = null \/ goal.completed THEN FALSE
  ELSE IF goal.targetType = "money" /\ s.money >= goal.targetValue THEN TRUE
  ELSE IF goal.targetType = "population" /\ s.population >= goal.targetValue THEN TRUE
  ELSE IF goal.targetType = "building_count" /\ goal.buildingType # undefined
          /\ Cardinality({c \in Coord \X Coord : g[c[2]][c[1]].buildingType # "None"})
               >= goal.targetValue THEN TRUE
  ELSE FALSE

checkGoalCompletion(g, s, goal) ==
  IF goal = null \/ goal.completed THEN FALSE
  ELSE IF goal.targetType = "money" /\ s.money >= goal.targetValue THEN TRUE
  ELSE IF goal.targetType = "population" /\ s.population >= goal.targetValue THEN TRUE
  ELSE IF goal.targetType = "building_count" /\ goal.buildingType # undefined
          /\ countTiles(g, goal.buildingType) >= goal.targetValue THEN TRUE
  ELSE FALSE

\* ------------------------------------------------------ goal collaborator

\* What the text-generation collaborator may do: fail (the request rejects),
\* answer with no text, with text that is not JSON, or with a JSON object.
Responses ==
  { [failure |-> "none", hasText |-> TRUE, description |-> "Grow the treasury",
     targetType |-> "money", targetValue |-> 1000, buildingType |-> undefined,
     reward |-> 50],
    [failure |-> "none", hasText |-> TRUE, description |-> "House the people",
     targetType |-> "population", targetValue |-> 5, buildingType |-> undefined,
     reward |-> 100],
    [failure |-> "none", hasText |-> TRUE, description |-> "Build a house",
     targetType |-> "building_count", targetValue |-> 1, buildingType |-> undefined,
     reward |-> 50],
    [failure |-> "none", hasText |-> TRUE, description |-> "Zero target",
     targetType |-> "money", targetValue |-> 0, buildingType |-> undefined,
     reward |-> 50],
    [failure |-> "none", hasText |-> FALSE, description |-> "",
     targetType |-> "money", targetValue |-> 0, buildingType |-> undefined,
     reward |-> 0],
    [failure |-> "json", hasText |-> TRUE, description |-> "",
     targetType |-> "money", targetValue |-> 0, buildingType |-> undefined,
     reward |-> 0],
    [failure |-> "network", hasText |-> FALSE, description |-> "",
     targetType |-> "money", targetValue |-> 0, buildingType |-> undefined,
     reward |-> 0] }

GoalResponseSchema(r) ==
  /\ Len(r.description) >= 5 /\ Len(r.description) <= 150
  /\ r.targetType \in {"population", "money", "building_count"}
  /\ r.targetValue \in Nat /\ r.targetValue > 0
  /\ r.buildingType \in {"Residential", "Commercial", "Industrial", "Park", "Road", undefined}
  /\ r.reward \in Nat /\ r.reward > 0

\* Outcome of generateCityGoal for what the collaborator did: a goal, null,
\* or a thrown ValidationError, with the messages it writes to console.error.
generateCityGoal(r) ==
  IF r.failure = "network" THEN [kind |-> "null", log |-> <<"AI Service Error:">>]
  ELSE IF ~r.hasText THEN [kind |-> "null", log |-> <<>>]
  ELSE IF r.failure = "json" THEN [kind |-> "null", log |-> <<"AI Service Error:">>]
  ELSE IF GoalResponseSchema(r)
    THEN [kind |-> "goal", log |-> <<>>,
          goal |-> [description |-> r.description,
                    targetType |-> r.targetType,
                    targetValue |-> r.targetValue,
                    buildingType |-> r.buildingType,
                    reward |-> r.reward,
                    completed |-> FALSE]]
    ELSE [kind |-> "throw", log |-> <<"Validation Error in generateCityGoal:">>]

\* ------------------------------------------------------------ store: init

Init ==
  /\ grid = createInitialGrid
  /\ selectedTool = "Road"
  /\ gameStarted = FALSE
  /\ isPaused = FALSE
  /\ stats = INITIAL_STATS
  /\ aiEnabled = TRUE
  /\ currentGoal = null
  /\ isGeneratingGoal = FALSE
  /\ newsFeed = <<>>
  /\ inFlight = [clean |-> 0, interrupted |-> 0]
  /\ effectPending = TRUE
  /\ retryWait = FALSE
  /\ observed = <<>>
  /\ logged = <<>>
  /\ gridEdits = 0
  /\ now = 0
  /\ storage = NoItem
  /\ loaded = TRUE
  /\ newsInFlight = 0
  /\ SceneUnmounted

\* ------------------------------------------------------- render scheduling

Deps_gameStartedOnly == <<gameStarted>>

\* The values the effects of useAiAdvisor depend on, directly or through the
\* identity of the fetchNewGoal callback.
Deps == <<gameStarted, aiEnabled, currentGoal, isGeneratingGoal, isPaused, stats, grid>>

\* After a command the component re-renders; its effects run again when a
\* dependency has changed.
Rerender == effectPending' = (effectPending \/ Deps' # Deps)

\* No render is pending: the next task may run.
Idle == ~effectPending

\* newsFeed after addNews(news) on feed.
addNews_twice(feed, news) ==
  LET n == Len(feed)
      kept == IF n <= NEWS_KEPT THEN feed ELSE SubSeq(feed, n - NEWS_KEPT + 1, n)
  IN Append(Append(kept, news), news)

addNews_keepsAll(feed, news) == Append(feed, news)

addNews(feed, news) ==
  LET n == Len(feed)
      kept == IF n <= NEWS_KEPT THEN feed ELSE SubSeq(feed, n - NEWS_KEPT + 1, n)
  IN Append(kept, news)

NewsItem(text, type) == [id |-> ToString(now), text |-> text, type |-> type]

\* ---------------------------------------------------------- grid slice

setTool(tool) ==
  /\ selectedTool' = tool
  /\ UNCHANGED <<grid, gameStarted, isPaused, stats, aiEnabled, currentGoal,
                 isGeneratingGoal, newsFeed, inFlight, retryWait, gridEdits, now, outerVars>>
  /\ observed' = <<>>
  /\ logged' = <<>>
  /\ Rerender

\* placeBuilding, "Case: Demolish" (selectedTool is None).
demolish_chargesToolCost(x, y) ==
  LET tile == grid[y][x] IN
  IF tile.buildingType # "None"
    THEN /\ IF canAfford(stats.money, "None")
              THEN /\ grid' = [grid EXCEPT ![y][x] = [tile EXCEPT !.buildingType = "None"]]
                   /\ stats' = [stats EXCEPT !.money = stats.money - BUILDINGS[selectedTool].cost]
                   /\ gridEdits' = gridEdits + 1
                   /\ UNCHANGED newsFeed
              ELSE /\ newsFeed' = addNews(newsFeed,
                                    NewsItem("Cannot afford demolition.", "negative"))
                   /\ UNCHANGED <<grid, stats, gridEdits>>
         /\ observed' = <<>>
         /\ logged' = <<>>
         /\ UNCHANGED <<selectedTool, gameStarted, isPaused, aiEnabled, currentGoal,
                        isGeneratingGoal, inFlight, retryWait, now, outerVars>>
         /\ Rerender
    ELSE UNCHANGED vars

demolish(x, y) ==
  LET tile == grid[y][x] IN
  IF tile.buildingType # "None"
    THEN /\ IF canAfford(stats.money, "None")
              THEN /\ grid' = [grid EXCEPT ![y][x] = [tile EXCEPT !.buildingType = "None"]]
                   /\ stats' = [stats EXCEPT !.money = stats.money - DEMOLISH_COST]
                   /\ gridEdits' = gridEdits + 1
                   /\ UNCHANGED newsFeed
              ELSE /\ newsFeed' = addNews(newsFeed,
                                    NewsItem("Cannot afford demolition.", "negative"))
                   /\ UNCHANGED <<grid, stats, gridEdits>>
         /\ observed' = <<>>
         /\ logged' = <<>>
         /\ UNCHANGED <<selectedTool, gameStarted, isPaused, aiEnabled, currentGoal,
                        isGeneratingGoal, inFlight, retryWait, now, outerVars>>
         /\ Rerender
    ELSE UNCHANGED vars

\* placeBuilding, "Case: Build" (selectedTool is a building).
build_fundsFirst(x, y) ==
  LET tile == grid[y][x]
      config == BUILDINGS[selectedTool] IN
  IF canAfford(stats.money, selectedTool)
    THEN IF tile.buildingType = "None"
           THEN /\ grid' = [grid EXCEPT ![y][x] = [tile EXCEPT !.buildingType = selectedTool]]
                /\ stats' = [stats EXCEPT !.money = stats.money - config.cost]
                /\ gridEdits' = gridEdits + 1
                /\ observed' = <<>>
                /\ logged' = <<>>
                /\ UNCHANGED <<newsFeed, selectedTool, gameStarted, isPaused, aiEnabled,
                               currentGoal, isGeneratingGoal, inFlight, retryWait, now, outerVars>>
                /\ Rerender
           ELSE UNCHANGED vars
    ELSE /\ newsFeed' = addNews(newsFeed,
                          NewsItem("Insufficient funds for " \o config.name \o ".",
                                   "negative"))
         /\ observed' = <<>>
         /\ logged' = <<>>
         /\ UNCHANGED <<grid, stats, gridEdits, selectedTool, gameStarted, isPaused,
                        aiEnabled, currentGoal, isGeneratingGoal, inFlight, retryWait, now, outerVars>>
         /\ Rerender

build(x, y) ==
  LET tile == grid[y][x]
      config == BUILDINGS[selectedTool] IN
  IF tile.buildingType = "None"
    THEN /\ IF canAfford(stats.money, selectedTool)
              THEN /\ grid' = [grid EXCEPT ![y][x] = [tile EXCEPT !.buildingType = selectedTool]]
                   /\ stats' = [stats EXCEPT !.money = stats.money - config.cost]
                   /\ gridEdits' = gridEdits + 1
                   /\ UNCHANGED newsFeed
              ELSE /\ newsFeed' = addNews(newsFeed,
                                    NewsItem("Insufficient funds for " \o config.name \o ".",
                                             "negative"))
                   /\ UNCHANGED <<grid, stats, gridEdits>>
         /\ observed' = <<>>
         /\ logged' = <<>>
         /\ UNCHANGED <<selectedTool, gameStarted, isPaused, aiEnabled, currentGoal,
                        isGeneratingGoal, inFlight, retryWait, now, outerVars>>
         /\ Rerender
    ELSE UNCHANGED vars

placeBuilding_ignoresPause(x, y) ==
  IF selectedTool = "None" THEN demolish(x, y) ELSE build(x, y)

placeBuilding(x, y) ==
  IF isPaused THEN UNCHANGED vars
  ELSE IF selectedTool = "None" THEN demolish(x, y)
  ELSE build(x, y)

\* ------------------------------------------------------- economy slice

\* Every fetch that is outstanding when the game is paused or reset.
interruptAll == [clean |-> 0, interrupted |-> inFlight.clean + inFlight.interrupted]

startGame(enabled) ==
  /\ gameStarted' = TRUE
  /\ isPaused' = FALSE
  /\ aiEnabled' = enabled
  /\ UNCHANGED <<grid, selectedTool, stats, currentGoal, isGeneratingGoal, newsFeed,
                 inFlight, retryWait, gridEdits, now, outerVars>>
  /\ observed' = <<>>
  /\ logged' = <<>>
  /\ Rerender

togglePause ==
  /\ isPaused' = ~isPaused
  /\ inFlight' = IF isPaused THEN inFlight ELSE interruptAll
  /\ UNCHANGED <<grid, selectedTool, gameStarted, stats, aiEnabled, currentGoal,
                 isGeneratingGoal, newsFeed, retryWait, gridEdits, now, outerVars>>
  /\ observed' = <<>>
  /\ logged' = <<>>
  /\ Rerender

tick_ignoresPause ==
  /\ LET newStats == calculateNextDay(stats, grid)
         updatedGoal ==
           IF aiEnabled /\ currentGoal # null /\ ~currentGoal.completed
              /\ checkGoalCompletion(grid, newStats, currentGoal)
             THEN [currentGoal EXCEPT !.completed = TRUE]
             ELSE currentGoal
     IN /\ stats' = newStats
        /\ currentGoal' = updatedGoal
  /\ UNCHANGED <<grid, selectedTool, gameStarted, isPaused, aiEnabled,
                 isGeneratingGoal, newsFeed, inFlight, retryWait, gridEdits, now, outerVars>>
  /\ observed' = <<>>
  /\ logged' = <<>>
  /\ Rerender

tick ==
  IF isPaused THEN UNCHANGED vars
  ELSE
    /\ LET newStats == calculateNextDay(stats, grid)
           updatedGoal ==
             IF aiEnabled /\ currentGoal # null /\ ~currentGoal.completed
                /\ checkGoalCompletion(grid, newStats, currentGoal)
               THEN [currentGoal EXCEPT !.completed = TRUE]
               ELSE currentGoal
       IN /\ stats' = newStats
          /\ currentGoal' = updatedGoal
    /\ UNCHANGED <<grid, selectedTool, gameStarted, isPaused, aiEnabled,
                   isGeneratingGoal, newsFeed, inFlight, retryWait, gridEdits, now, outerVars>>
    /\ observed' = <<>>
    /\ logged' = <<>>
    /\ Rerender

\* The interval of useGameLoop, which exists while the game is started and
\* not paused.
useGameLoop ==
  /\ gameStarted /\ ~isPaused
  /\ tick

\* ------------------------------------------------------------ AI slice

claimReward_keepsGoal ==
  IF currentGoal # null /\ currentGoal.completed
    THEN /\ stats' = [stats EXCEPT !.money = stats.money + currentGoal.reward]
         /\ UNCHANGED currentGoal
         /\ newsFeed' = addNews(newsFeed,
                          NewsItem("Goal achieved! " \o ToString(currentGoal.reward) \o " collected.",
                                   "positive"))
         /\ observed' = <<Snapshot(grid, stats', currentGoal', newsFeed)>>
         /\ logged' = <<>>
         /\ UNCHANGED <<grid, selectedTool, gameStarted, isPaused, aiEnabled,
                        isGeneratingGoal, inFlight, retryWait, gridEdits, now, outerVars>>
         /\ Rerender
    ELSE UNCHANGED vars

claimReward ==
  IF currentGoal # null /\ currentGoal.completed
    THEN /\ stats' = [stats EXCEPT !.money = stats.money + currentGoal.reward]
         /\ currentGoal' = null
         /\ newsFeed' = addNews(newsFeed,
                          NewsItem("Goal achieved! " \o ToString(currentGoal.reward) \o " collected.",
                                   "positive"))
         /\ observed' = <<Snapshot(grid, stats', currentGoal', newsFeed)>>
         /\ logged' = <<>>
         /\ UNCHANGED <<grid, selectedTool, gameStarted, isPaused, aiEnabled,
                        isGeneratingGoal, inFlight, retryWait, gridEdits, now, outerVars>>
         /\ Rerender
    ELSE UNCHANGED vars

\* resetGame: resetGrid(), resetEconomy(), resetAI(), one set() each.
resetGame ==
  /\ grid' = createInitialGrid
  /\ selectedTool' = "Road"
  /\ gameStarted' = FALSE
  /\ isPaused' = FALSE
  /\ stats' = INITIAL_STATS
  /\ currentGoal' = null
  /\ newsFeed' = <<>>
  /\ isGeneratingGoal' = FALSE
  /\ observed' = << Snapshot(createInitialGrid, stats, currentGoal, newsFeed),
                    Snapshot(createInitialGrid, INITIAL_STATS, currentGoal, newsFeed) >>
  /\ logged' = <<>>
  /\ inFlight' = interruptAll
  /\ effectPending' = TRUE
  /\ gridEdits' = 0
  /\ UNCHANGED <<aiEnabled, retryWait, now, outerVars>>

\* ------------------------------------------------------- useAiAdvisor

\* fetchNewGoal up to its first await: the guard and setIsGeneratingGoal(true).
fetchNewGoal ==
  IF isGeneratingGoal \/ ~aiEnabled \/ ~gameStarted \/ isPaused
    THEN UNCHANGED <<isGeneratingGoal, inFlight>>
    ELSE /\ inFlight.clean + inFlight.interrupted < MaxInFlight
         /\ isGeneratingGoal' = TRUE
         /\ inFlight' = [inFlight EXCEPT !.clean = @ + 1]

\* The "Initial Goal Trigger" effect, run after a render whose dependencies
\* changed.
InitialGoalTrigger ==
  /\ effectPending
  /\ IF gameStarted /\ aiEnabled /\ currentGoal = null /\ ~isGeneratingGoal
       THEN fetchNewGoal
       ELSE UNCHANGED <<isGeneratingGoal, inFlight>>
  /\ effectPending' = (isGeneratingGoal' # isGeneratingGoal)
  /\ observed' = <<>>
  /\ logged' = <<>>
  /\ UNCHANGED <<grid, selectedTool, gameStarted, isPaused, stats, aiEnabled,
                 currentGoal, newsFeed, retryWait, gridEdits, now, outerVars>>

\* The 15 s goalInterval of the "Periodic Checks" effect, which exists while
\* the game is started and not paused.
GoalRetryTimer ==
  /\ gameStarted /\ ~isPaused
  /\ IF currentGoal = null /\ ~isGeneratingGoal
       THEN fetchNewGoal
       ELSE UNCHANGED <<isGeneratingGoal, inFlight>>
  /\ retryWait' = FALSE
  /\ observed' = <<>>
  /\ logged' = <<>>
  /\ UNCHANGED <<grid, selectedTool, gameStarted, isPaused, stats, aiEnabled,
                 currentGoal, newsFeed, gridEdits, now, outerVars>>
  /\ Rerender

\* fetchNewGoal after its awaits: the collaborator answered r to a request
\* that was (interrupted) or was not paused/reset while outstanding.
fetchCompletes(interrupted, r) ==
  /\ IF interrupted THEN inFlight.interrupted > 0 ELSE inFlight.clean > 0
  /\ inFlight' = IF interrupted
                   THEN [inFlight EXCEPT !.interrupted = @ - 1]
                   ELSE [inFlight EXCEPT !.clean = @ - 1]
  /\ LET result == generateCityGoal(r) IN
       IF result.kind = "goal"
         THEN /\ currentGoal' = result.goal
              /\ observed' = <<Snapshot(grid, stats, result.goal, newsFeed)>>
              /\ logged' = result.log
              /\ retryWait' = FALSE
         ELSE /\ UNCHANGED currentGoal
              /\ observed' = <<>>
              /\ logged' = IF result.kind = "throw"
                             THEN result.log \o <<"AI Advisor failed to generate goal">>
                             ELSE result.log
              /\ retryWait' = TRUE
  /\ isGeneratingGoal' = FALSE
  /\ UNCHANGED <<grid, selectedTool, gameStarted, isPaused, stats, aiEnabled,
                 newsFeed, gridEdits, now, outerVars>>
  /\ Rerender

\* Wall-clock time advances by a millisecond.
TimePasses ==
  /\ now < MaxNow
  /\ now' = now + 1
  /\ UNCHANGED <<storeVars, hookVars, observed, logged, gridEdits, outerVars>>

\* setGoal(goal), with a goal that generateCityGoal returned for answer r.
setGoal(r) ==
  /\ generateCityGoal(r).kind = "goal"
  /\ currentGoal' = generateCityGoal(r).goal
  /\ observed' = <<>>
  /\ logged' = <<>>
  /\ UNCHANGED <<grid, selectedTool, gameStarted, isPaused, stats, aiEnabled,
                 isGeneratingGoal, newsFeed, inFlight, retryWait, gridEdits, now, outerVars>>
  /\ Rerender

\* ------------------------------------------------------------ App

\* handleTileClick of App: clicks are ignored until the game has started.
handleTileClick(x, y) ==
  IF ~gameStarted THEN UNCHANGED vars ELSE placeBuilding(x, y)

\* handleStart of App; the StartScreen is rendered while the game has not
\* started.
handleStart(enabled) ==
  /\ ~gameStarted
  /\ startGame(enabled)

\* ------------------------------------------------------------ behaviour

\* The application: the player's commands, the timers of the hooks and the
\* continuations of fetchNewGoal are separate tasks; a pending render and
\* its effects complete before the next task runs (Idle).
Next ==
  \/ InitialGoalTrigger
  \/ \E tool \in Tools : Idle /\ setTool(tool)
  \/ \E c \in ClickTiles : Idle /\ gridEdits < AppEdits /\ handleTileClick(c[1], c[2])
  \/ \E enabled \in BOOLEAN : Idle /\ handleStart(enabled)
  \/ Idle /\ togglePause
  \/ Idle /\ stats.day < MaxDay /\ useGameLoop
  \/ Idle /\ claimReward
  \/ Idle /\ resetGame
  \/ Idle /\ GoalRetryTimer
  \/ \E interrupted \in BOOLEAN, r \in Responses : Idle /\ fetchCompletes(interrupted, r)
  \/ TimePasses

Spec == Init /\ [][Next]_vars

\* The answers under which goals are fetched, met and claimed again and
\* again: the money goal, which the first tick meets, and no text at all.
LiveResponses ==
  {r \in Responses : r.failure = "none" /\ (~r.hasText \/ r.targetValue = INITIAL_MONEY)}

\* The application without its tile clicks and tool changes, when React runs
\* the effects of every render whose dependencies changed.
LiveNext ==
  \/ InitialGoalTrigger
  \/ \E enabled \in BOOLEAN : Idle /\ handleStart(enabled)
  \/ Idle /\ togglePause
  \/ Idle /\ stats.day < MaxDay /\ useGameLoop
  \/ Idle /\ claimReward
  \/ Idle /\ resetGame
  \/ Idle /\ GoalRetryTimer
  \/ \E interrupted \in BOOLEAN, r \in LiveResponses : Idle /\ fetchCompletes(interrupted, r)

LiveSpec == Init /\ [][LiveNext]_vars /\ WF_vars(InitialGoalTrigger)

\* The answers whose goals setGoal installs in the store alone: the money
\* and population goals.
StoreResponses == {r \in Responses : r.targetType # "building_count"}

\* The store alone, under every sequence of its commands, setGoal among
\* them; the clock stands still.
StoreNext ==
  \/ \E tool \in Tools : setTool(tool)
  \/ \E c \in ClickTiles : gridEdits < MaxEdits /\ placeBuilding(c[1], c[2])
  \/ \E enabled \in BOOLEAN : startGame(enabled)
  \/ togglePause
  \/ stats.day < MaxDay /\ tick
  \/ claimReward
  \/ resetGame
  \/ \E r \in StoreResponses : setGoal(r)

StoreSpec == Init /\ [][StoreNext]_vars

\* The pure simulation, applied by tick to every grid and stats of the bounded
\* input sets.
SimGrids ==
  { [y \in Coord |-> [x \in Coord |->
       [x |-> x, y |-> y,
        buildingType |-> IF y * GRID_SIZE + x < SimTiles
                           THEN f[y * GRID_SIZE + x] ELSE "None"]]] :
    f \in [0 .. (SimTiles - 1) -> BuildingType] }

SimPopulations ==
  (0 .. MaxPop) \cup {MAX_POP_PER_RESIDENTIAL - 2, MAX_POP_PER_RESIDENTIAL}

\* The goals the simulation starts with: none, or a goal of each target type,
\* already completed or not; a building_count goal may lack its buildingType.
SimGoals ==
  {null} \cup
  { [description |-> "A goal", targetType |-> k[1], targetValue |-> k[2],
     buildingType |-> k[3], reward |-> 50, completed |-> done] :
      k \in { <<"money", INITIAL_MONEY, undefined>>,
              <<"population", 5, undefined>>,
              <<"building_count", 1, "Residential">>,
              <<"building_count", 2, "Residential">>,
              <<"building_count", 1, undefined>> },
      done \in BOOLEAN }

SimInit ==
  /\ grid \in SimGrids
  /\ stats \in [money : {0, INITIAL_MONEY}, population : SimPopulations, day : {1}]
  /\ selectedTool = "Road"
  /\ gameStarted = TRUE
  /\ isPaused = FALSE
  /\ aiEnabled = TRUE
  /\ currentGoal \in SimGoals
  /\ isGeneratingGoal = FALSE
  /\ newsFeed = <<>>
  /\ inFlight = [clean |-> 0, interrupted |-> 0]
  /\ effectPending = FALSE
  /\ retryWait = FALSE
  /\ observed = <<>>
  /\ logged = <<>>
  /\ gridEdits = 0
  /\ now = 0
  /\ storage = NoItem
  /\ loaded = TRUE
  /\ newsInFlight = 0
  /\ SceneUnmounted

SimNext == stats.day < SimDays /\ tick

SimSpec == SimInit /\ [][SimNext]_vars

\* placeBuilding alone, applied to every tile of every grid of SimGrids under
\* every selected tool, paused or not, with or without a goal, with the
\* treasury full and at and just below every price.
PlaceTiles == {c \in Coord \X Coord : c[2] * GRID_SIZE + c[1] < SimTiles}

PlaceMoney ==
  {0, DEMOLISH_COST, INITIAL_MONEY}
    \cup {BUILDINGS[t].cost : t \in BuildingType}
    \cup {BUILDINGS[t].cost - DEMOLISH_COST : t \in BuildingType \ {"None"}}

PlaceGoals ==
  {null} \cup {generateCityGoal(r).goal : r \in {q \in Responses : generateCityGoal(q).kind = "goal"}}

PlaceInit ==
  /\ grid \in SimGrids
  /\ stats \in [money : PlaceMoney, population : {0}, day : {1}]
  /\ selectedTool \in BuildingType
  /\ gameStarted = TRUE
  /\ isPaused \in BOOLEAN
  /\ aiEnabled = TRUE
  /\ currentGoal \in PlaceGoals
  /\ isGeneratingGoal = FALSE
  /\ newsFeed = <<>>
  /\ inFlight = [clean |-> 0, interrupted |-> 0]
  /\ effectPending = FALSE
  /\ retryWait = FALSE
  /\ observed = <<>>
  /\ logged = <<>>
  /\ gridEdits = 0
  /\ now = 0
  /\ storage = NoItem
  /\ loaded = TRUE
  /\ newsInFlight = 0
  /\ SceneUnmounted

PlaceNext == \E c \in PlaceTiles : gridEdits < MaxEdits /\ placeBuilding(c[1], c[2])

PlaceSpec == PlaceInit /\ [][PlaceNext]_vars

\* ------------------------------------------------------------ properties

\* Number of Residential tiles of grid g.
ResidentialTiles(g) ==
  Cardinality({c \in Coord \X Coord : g[c[2]][c[1]].buildingType = "Residential"})

\* C1 (as stated): for every grid and every stats with population >= 0, the
\* population returned by calculateNextDay is at most the number of
\* Residential tiles times 50.
C1_CapAlways ==
  stats.population >= 0 =>
    calculateNextDay(stats, grid).population <= ResidentialTiles(grid) * 50

\* C1 (amended): the population returned by calculateNextDay is at most the
\* number of Residential tiles times 50 whenever the grid has a Residential
\* tile or the current population is 0.
C1_CapWithHousing ==
  (stats.population >= 0 /\ (ResidentialTiles(grid) > 0 \/ stats.population = 0)) =>
    calculateNextDay(stats, grid).population <= ResidentialTiles(grid) * 50

\* A tick has clamped the population of a grid with housing to its cap.
C1_CapReached ==
  /\ stats.day > 1
  /\ ResidentialTiles(grid) > 0
  /\ stats.population = ResidentialTiles(grid) * 50

\* C2: stats.money is never negative in any state the store reaches from its
\* initial state by setTool, placeBuilding, tick, togglePause, claimReward
\* and goal installations.
C2_MoneyNonNegative == stats.money >= 0

\* A placement has been refused for insufficient funds and the treasury is
\* still too small for a factory.
C2_Refused ==
  /\ stats.money < BUILDINGS["Industrial"].cost
  /\ \E i \in DOMAIN newsFeed : newsFeed[i].type = "negative"

\* The target of goal is met by stats s and grid g (section 4.3 of the
\* contract: money and population by >=, building_count by the tile count).
TargetMet(g, s, goal) ==
  \/ goal.targetType = "money" /\ s.money >= goal.targetValue
  \/ goal.targetType = "population" /\ s.population >= goal.targetValue
  \/ /\ goal.targetType = "building_count"
     /\ goal.buildingType # undefined
     /\ Cardinality({c \in Coord \X Coord :
                       g[c[2]][c[1]].buildingType = goal.buildingType}) >= goal.targetValue

\* A step of tick while not paused, from a state whose uncompleted goal is
\* met by the stats after the step.
TickMeetsGoal ==
  /\ ~isPaused
  /\ tick
  /\ currentGoal # null
  /\ ~currentGoal.completed
  /\ TargetMet(grid, stats', currentGoal)

\* The step replaces the stats and flips the goal in one notification: no
\* subscriber is called with the new stats and the goal still uncompleted.
StatsAndFlipTogether ==
  /\ stats' = calculateNextDay(stats, grid)
  /\ currentGoal' = [currentGoal EXCEPT !.completed = TRUE]
  /\ \A i \in DOMAIN observed' :
       observed'[i].stats = stats' => observed'[i].currentGoal = currentGoal'

\* C3 (as stated): whenever tick runs while not paused and an uncompleted
\* current goal is met by the post-tick stats and the grid, the state right
\* after the tick has the new stats and currentGoal.completed = TRUE, and no
\* observer sees the new stats with the goal unflipped.
C3_TickFlipsMetGoal ==
  [][TickMeetsGoal => StatsAndFlipTogether]_vars

\* C3 (amended): the same, for ticks that run while aiEnabled is TRUE.
C3_TickFlipsMetGoalWhenAiEnabled ==
  [][(aiEnabled /\ TickMeetsGoal) => StatsAndFlipTogether]_vars

\* A tick has flipped a goal with the advisor enabled.
C3_Flipped ==
  /\ aiEnabled
  /\ stats.day > 1
  /\ currentGoal # null
  /\ currentGoal.completed
  /\ TargetMet(grid, stats, currentGoal)

\* C4: goal completion is one-way: from a state whose goal is completed,
\* every step leaves that same completed goal in place or leaves no goal.
C4_CompletionOneWay ==
  [][(currentGoal # null /\ currentGoal.completed)
       => (currentGoal' = currentGoal \/ currentGoal' = null)]_vars

\* feed without its last item.
Front(feed) == SubSeq(feed, 1, Len(feed) - 1)

\* The last n items of feed.
Last(feed, n) == SubSeq(feed, Len(feed) - n + 1, Len(feed))

\* C5: claimReward changes nothing of the store when there is no current
\* goal or the goal is not completed; on a completed goal it adds exactly
\* goal.reward to money and nothing else to the stats, sets currentGoal to
\* absent, and appends one positive NewsItem behind the retained items of
\* the feed, so that claimReward right after is the no-op case.
C5_ClaimReward ==
  [][claimReward =>
       IF currentGoal # null /\ currentGoal.completed
         THEN /\ stats' = [stats EXCEPT !.money = stats.money + currentGoal.reward]
              /\ currentGoal' = null
              /\ Len(newsFeed') >= 1
              /\ newsFeed'[Len(newsFeed')].type = "positive"
              /\ Len(newsFeed') <= Len(newsFeed) + 1
              /\ Front(newsFeed') = Last(newsFeed, Len(newsFeed') - 1)
              /\ UNCHANGED <<grid, selectedTool, gameStarted, isPaused, aiEnabled,
                             isGeneratingGoal>>
         ELSE UNCHANGED storeVars]_vars

\* A reward has been claimed: the goal is gone, the treasury holds more than
\* the initial money and the newest news item is the positive one.
C5_Claimed ==
  /\ currentGoal = null
  /\ Len(newsFeed) >= 1
  /\ newsFeed[Len(newsFeed)].type = "positive"
  /\ stats.money > INITIAL_MONEY

\* C6: at most one goal fetch is in flight at any time.
C6_OneFetchInFlight ==
  inFlight.clean + inFlight.interrupted <= 1

\* C7: the result of a fetch during which the game was paused or reset is
\* ignored: currentGoal is the same after the completion as before it.
C7_InterruptedResultIgnored ==
  [][(\E r \in Responses : fetchCompletes(TRUE, r)) => currentGoal' = currentGoal]_vars

\* C8: after a fetch has ended without a goal, only the 15 s retry timer
\* starts the next fetch.
C8_RetryOnlyOnTimer ==
  [][(retryWait /\ inFlight'.clean > inFlight.clean) => GoalRetryTimer]_vars

\* C9: resetGame is atomic for subscribers: every store state notified
\* during it is the state before the reset or the fully reset state, never
\* one with the grid reset and the stats, goal or news of before.
C9_ResetAtomic ==
  [][resetGame =>
       \A i \in DOMAIN observed' :
         \/ observed'[i] = Snapshot(grid, stats, currentGoal, newsFeed)
         \/ observed'[i] = Snapshot(createInitialGrid, INITIAL_STATS, null, <<>>)]_vars

\* C10: while isPaused, placeBuilding(x, y) leaves grid, stats and newsFeed
\* unchanged for every tile, tool and money value.
C10_PausedPlacementRejected ==
  [][(isPaused /\ \E c \in ClickTiles : placeBuilding(c[1], c[2]))
       => UNCHANGED <<grid, stats, newsFeed>>]_vars

\* The game is paused in a state where the same placement would otherwise
\* build: the tile is empty and the selected building is affordable.
C10_PausedBuildable ==
  /\ isPaused
  /\ gameStarted
  /\ selectedTool # "None"
  /\ canAfford(stats.money, selectedTool)
  /\ \E c \in ClickTiles : grid[c[2]][c[1]].buildingType = "None"

\* C11 (as stated): no tick takes effect while the game is paused or not yet
\* started: a step of tick() from such a state leaves stats and currentGoal
\* unchanged.
C11_NoTickPausedOrNotStarted ==
  [][((isPaused \/ ~gameStarted) /\ tick) => UNCHANGED <<stats, currentGoal>>]_vars

\* C11 (amended): tick() leaves stats and currentGoal unchanged while the
\* game is paused, and the tick driver calls tick() only while the game is
\* started and not paused.
C11_NoTickPaused ==
  [][/\ (isPaused /\ tick) => UNCHANGED <<stats, currentGoal>>
     /\ (useGameLoop /\ stats' # stats) => (gameStarted /\ ~isPaused)]_vars

\* The game is paused on a day that a tick would advance, with housing whose
\* population a tick would grow.
C11_PausedWithHousing ==
  /\ isPaused
  /\ gameStarted
  /\ stats.day < MaxDay
  /\ ResidentialTiles(grid) > 0
  /\ calculateNextDay(stats, grid).population > stats.population

\* placeBuilding(x, y) is refused for insufficient funds: a build on an empty
\* tile that costs more than the treasury holds, or a demolition of an
\* occupied tile with less than 5 in the treasury.
InsufficientFunds(x, y) ==
  \/ /\ selectedTool # "None"
     /\ grid[y][x].buildingType = "None"
     /\ stats.money < BUILDINGS[selectedTool].cost
  \/ /\ selectedTool = "None"
     /\ grid[y][x].buildingType # "None"
     /\ stats.money < 5

\* C12: when placeBuilding is rejected for insufficient funds, grid and stats
\* are unchanged and exactly one NewsItem, of type negative, is appended to
\* newsFeed behind its retained items.
C12_RefusalEmitsOneNegative ==
  [][\A c \in PlaceTiles :
       (~isPaused /\ InsufficientFunds(c[1], c[2]) /\ placeBuilding(c[1], c[2]))
         => /\ UNCHANGED <<grid, stats>>
            /\ Len(newsFeed') >= 1
            /\ Len(newsFeed') <= Len(newsFeed) + 1
            /\ newsFeed'[Len(newsFeed')].type = "negative"
            /\ Front(newsFeed') = Last(newsFeed, Len(newsFeed') - 1)]_vars

\* A demolition has been refused: the newest news item says so, the treasury
\* holds less than the demolition cost and the tile is still occupied.
C12_DemolitionRefused ==
  /\ Len(newsFeed) >= 1
  /\ newsFeed[Len(newsFeed)].type = "negative"
  /\ newsFeed[Len(newsFeed)].text = "Cannot afford demolition."
  /\ selectedTool = "None"
  /\ stats.money < DEMOLISH_COST
  /\ \E c \in PlaceTiles : grid[c[2]][c[1]].buildingType # "None"

\* placeBuilding(x, y) has nothing to do: the demolish tool on an empty tile
\* or a build tool on an occupied tile.
NothingToDo(x, y) ==
  \/ selectedTool = "None" /\ grid[y][x].buildingType = "None"
  \/ selectedTool # "None" /\ grid[y][x].buildingType # "None"

\* C13: placeBuilding leaves grid, money and newsFeed unchanged when the
\* demolish tool is used on an empty tile or a build tool on an occupied
\* tile, whatever the money is, affordable or not.
C13_NothingToDoIsNoOp ==
  [][\A c \in PlaceTiles :
       (NothingToDo(c[1], c[2]) /\ placeBuilding(c[1], c[2]))
         => UNCHANGED <<grid, stats, newsFeed>>]_vars

\* A build has just emptied the treasury below the price of the selected
\* building: the same click again is a build on an occupied tile that the
\* player could not afford, and no news has been emitted.
C13_OccupiedAndUnaffordable ==
  /\ ~isPaused
  /\ gridEdits > 0
  /\ selectedTool # "None"
  /\ ~canAfford(stats.money, selectedTool)
  /\ \E c \in PlaceTiles : grid[c[2]][c[1]].buildingType = selectedTool
  /\ \A c \in PlaceTiles : grid[c[2]][c[1]].buildingType # "None"
  /\ newsFeed = <<>>

\* C14: on a grid with no Residential tile a tick takes a population p > 0
\* to max(0, p - 5), whatever else the grid holds (Parks included), and
\* leaves a population of 0 at 0: from 12 the ticks give 7, 2, 0, 0.
C14_DecayWithoutHousing ==
  [][(tick /\ ~isPaused /\ ResidentialTiles(grid) = 0)
       => stats'.population =
            (IF stats.population > 5 THEN stats.population - 5 ELSE 0)]_vars

\* Two ticks have taken the population of a grid with Parks and no housing
\* from 12 to 2.
C14_TwelveSevenTwo ==
  /\ stats.day = 3
  /\ stats.population = 2
  /\ ResidentialTiles(grid) = 0
  /\ \E c \in Coord \X Coord : grid[c[2]][c[1]].buildingType = "Park"

\* Number of tiles of grid g that hold a building of type t.
TilesOf(g, t) ==
  Cardinality({c \in Coord \X Coord : g[c[2]][c[1]].buildingType = t})

\* Sum of incomeGen over the non-empty tiles of g (Shop 15, Factory 40; the
\* other buildings earn nothing).
IncomeOf(g) == 15 * TilesOf(g, "Commercial") + 40 * TilesOf(g, "Industrial")

\* Sum of popGen over the non-empty tiles of g (House 5, Park 1).
PopGenOf(g) == 5 * TilesOf(g, "Residential") + TilesOf(g, "Park")

\* C15: a tick returns day + 1, money + the sum of incomeGen over the
\* non-empty tiles and, on a grid with at least one Residential tile,
\* population = min(population + sum of popGen, residentialCount x 50).
C15_NextDay ==
  [][(tick /\ ~isPaused)
       => /\ stats'.day = stats.day + 1
          /\ stats'.money = stats.money + IncomeOf(grid)
          /\ TilesOf(grid, "Residential") > 0
               => stats'.population =
                    (IF stats.population + PopGenOf(grid) < TilesOf(grid, "Residential") * 50
                       THEN stats.population + PopGenOf(grid)
                       ELSE TilesOf(grid, "Residential") * 50)]_vars

\* A tick on a grid of one House and one Shop has paid 15 into the initial
\* treasury and housed the first 5 people.
C15_FirstDayPaid ==
  /\ stats.day = 2
  /\ stats.money = INITIAL_MONEY + 15
  /\ stats.population = 5
  /\ TilesOf(grid, "Residential") = 1
  /\ TilesOf(grid, "Commercial") = 1

\* placeBuilding(x, y) succeeds: not paused, and an affordable build on an
\* empty tile or an affordable demolition of an occupied one.
Succeeds(x, y) ==
  /\ ~isPaused
  /\ \/ /\ selectedTool # "None"
        /\ grid[y][x].buildingType = "None"
        /\ stats.money >= BUILDINGS[selectedTool].cost
     \/ /\ selectedTool = "None"
        /\ grid[y][x].buildingType # "None"
        /\ stats.money >= 5

\* C16: a successful placeBuilding(x, y) sets tile (x, y) to the selected
\* tool (None for a demolition), deducts exactly the price (5 for a
\* demolition) from money, and leaves every other tile, the x and y of the
\* changed tile, population, day, goal and newsFeed unchanged.
C16_SuccessfulPlacement ==
  [][\A c \in PlaceTiles :
       (Succeeds(c[1], c[2]) /\ placeBuilding(c[1], c[2]))
         => /\ grid'[c[2]][c[1]].buildingType = selectedTool
            /\ grid'[c[2]][c[1]].x = c[1]
            /\ grid'[c[2]][c[1]].y = c[2]
            /\ \A d \in Coord \X Coord : d # c => grid'[d[2]][d[1]] = grid[d[2]][d[1]]
            /\ stats'.money = stats.money
                 - (IF selectedTool = "None" THEN 5 ELSE BUILDINGS[selectedTool].cost)
            /\ stats'.population = stats.population
            /\ stats'.day = stats.day
            /\ UNCHANGED <<currentGoal, newsFeed>>]_vars

\* A House has been placed at (0,0) out of the initial treasury: money is
\* 900 and the tile is Residential.
C16_HousePlaced ==
  /\ gridEdits = 1
  /\ stats.money = INITIAL_MONEY - 100
  /\ grid[0][0].buildingType = "Residential"
  /\ selectedTool = "Residential"

\* The collaborator answered with a JSON object r that violates the response
\* contract: description of 5 to 150 characters, targetType one of the three
\* values, targetValue and reward positive integers, buildingType present if
\* and only if targetType is building_count.
ViolatesContract(r) ==
  /\ r.failure = "none"
  /\ r.hasText
  /\ ~ /\ Len(r.description) >= 5
       /\ Len(r.description) <= 150
       /\ r.targetType \in {"population", "money", "building_count"}
       /\ r.targetValue \in Nat \ {0}
       /\ r.reward \in Nat \ {0}
       /\ (r.buildingType # undefined) <=> (r.targetType = "building_count")

\* C17: when the collaborator's answer violates the response contract, the
\* completion of the fetch installs no goal, sets isGeneratingGoal to FALSE
\* and leaves the rest of the store, on which tick, placeBuilding and
\* claimReward work, as it was.
C17_ViolationInstallsNothing ==
  [][\A r \in Responses, i \in BOOLEAN :
       (ViolatesContract(r) /\ fetchCompletes(i, r))
         => /\ currentGoal' = currentGoal
            /\ isGeneratingGoal' = FALSE
            /\ UNCHANGED <<grid, selectedTool, gameStarted, isPaused, stats, aiEnabled,
                           newsFeed>>]_vars

\* C18: generateCityGoal never throws across its boundary: the catch block
\* of fetchNewGoal, which logs "AI Advisor failed to generate goal", is never
\* entered.
C18_NeverThrows ==
  \A i \in DOMAIN logged : logged[i] # "AI Advisor failed to generate goal"

\* C19: every goal that a completed fetch installs has buildingType present
\* if and only if targetType is building_count, targetValue > 0, reward > 0
\* and completed = FALSE.
C19_InstalledGoalWellFormed ==
  [][\A r \in Responses, i \in BOOLEAN :
       (fetchCompletes(i, r) /\ currentGoal' # currentGoal)
         => /\ (currentGoal'.buildingType # undefined)
                 <=> (currentGoal'.targetType = "building_count")
            /\ currentGoal'.targetValue > 0
            /\ currentGoal'.reward > 0
            /\ currentGoal'.completed = FALSE]_vars

\* ------------------------------------------- ref-based App: persistence
\* The App that keeps its state in useState cells and refs (grid, stats,
\* aiEnabled, gameStarted, selectedTool, currentGoal, isGeneratingGoal and
\* newsFeed are its cells here) and saves itself to localStorage.

\* The keys of the document the auto-save loop writes.
SaveKeys == {"grid", "stats", "aiEnabled", "currentGoal", "newsFeed"}

\* JSON.stringify of a goal: a key whose value is undefined is left out.
stringifyGoal(goal) ==
  IF goal = null THEN null
  ELSE IF goal.buildingType = undefined
    THEN [description |-> goal.description, targetType |-> goal.targetType,
          targetValue |-> goal.targetValue, reward |-> goal.reward,
          completed |-> goal.completed]
    ELSE goal

\* A goal returned by JSON.parse, read as an AIGoal: a key that is not there
\* reads as undefined.
parseGoal(json) ==
  IF json = null THEN null
  ELSE IF "buildingType" \in DOMAIN json THEN json
  ELSE [description |-> json.description, targetType |-> json.targetType,
        targetValue |-> json.targetValue, buildingType |-> undefined,
        reward |-> json.reward, completed |-> json.completed]

\* dataToSave of the auto-save loop, as JSON.stringify writes it.
dataToSave ==
  [item |-> TRUE, has |-> SaveKeys,
   val |-> [grid |-> grid, stats |-> stats, aiEnabled |-> aiEnabled,
            currentGoal |-> stringifyGoal(currentGoal), newsFeed |-> newsFeed]]

\* The auto-save loop: every 5 s while the game is started.
refApp_autoSave ==
  /\ loaded
  /\ gameStarted
  /\ storage' = dataToSave
  /\ UNCHANGED <<storeVars, hookVars, observed, logged, gridEdits, now, loaded, newsInFlight, worldVars>>

\* Load game state on mount: the document is used only when it has both a
\* grid and stats.
refApp_load ==
  /\ ~loaded
  /\ loaded' = TRUE
  /\ IF storage.item /\ "grid" \in storage.has /\ "stats" \in storage.has
       THEN /\ grid' = storage.val.grid
            /\ stats' = storage.val.stats
            /\ aiEnabled' = IF "aiEnabled" \in storage.has
                              THEN storage.val.aiEnabled ELSE aiEnabled
            /\ currentGoal' = IF "currentGoal" \in storage.has
                                    /\ storage.val.currentGoal # null
                                THEN parseGoal(storage.val.currentGoal)
                                ELSE currentGoal
            /\ newsFeed' = IF "newsFeed" \in storage.has
                             THEN storage.val.newsFeed ELSE newsFeed
       ELSE UNCHANGED <<grid, stats, aiEnabled, currentGoal, newsFeed>>
  /\ UNCHANGED <<selectedTool, gameStarted, isPaused, isGeneratingGoal, hookVars,
                 observed, logged, gridEdits, now, storage, newsInFlight, worldVars>>

\* handleStart of the ref-based App.
refApp_handleStart(enabled) ==
  /\ loaded
  /\ ~gameStarted
  /\ aiEnabled' = enabled
  /\ gameStarted' = TRUE
  /\ UNCHANGED <<grid, selectedTool, isPaused, stats, currentGoal, isGeneratingGoal,
                 newsFeed, hookVars, observed, logged, gridEdits, now, outerVars>>

\* Math.random() appended to an id: one of two values here.
RandomSuffix == {"0.1", "0.7"}

\* handleTileClick of the ref-based App.
refApp_handleTileClick(x, y) ==
  /\ loaded
  /\ gameStarted
  /\ LET tile == grid[y][x] IN
       IF selectedTool = "None"
         THEN IF tile.buildingType # "None"
                THEN IF stats.money >= 5
                       THEN /\ grid' = [grid EXCEPT ![y][x].buildingType = "None"]
                            /\ stats' = [stats EXCEPT !.money = @ - 5]
                            /\ gridEdits' = gridEdits + 1
                            /\ UNCHANGED newsFeed
                       ELSE /\ newsFeed' = addNews(newsFeed,
                                             NewsItem("Cannot afford demolition costs.", "negative"))
                            /\ UNCHANGED <<grid, stats, gridEdits>>
                ELSE UNCHANGED <<grid, stats, gridEdits, newsFeed>>
         ELSE IF tile.buildingType = "None"
                THEN IF stats.money >= BUILDINGS[selectedTool].cost
                       THEN /\ stats' = [stats EXCEPT !.money = @ - BUILDINGS[selectedTool].cost]
                            /\ grid' = [grid EXCEPT ![y][x].buildingType = selectedTool]
                            /\ gridEdits' = gridEdits + 1
                            /\ UNCHANGED newsFeed
                       ELSE /\ \E rnd \in RandomSuffix :
                                 newsFeed' = addNews(newsFeed,
                                   [id |-> ToString(now) \o rnd,
                                    text |-> "Treasury insufficient for " \o BUILDINGS[selectedTool].name \o ".",
                                    type |-> "negative"])
                            /\ UNCHANGED <<grid, stats, gridEdits>>
                ELSE UNCHANGED <<grid, stats, gridEdits, newsFeed>>
  /\ UNCHANGED <<selectedTool, gameStarted, isPaused, aiEnabled, currentGoal,
                 isGeneratingGoal, hookVars, observed, logged, now, outerVars>>

\* onSelectTool of the ref-based App (setSelectedTool).
refApp_setSelectedTool(tool) ==
  /\ loaded
  /\ gameStarted
  /\ selectedTool' = tool
  /\ UNCHANGED <<grid, gameStarted, isPaused, stats, aiEnabled, currentGoal,
                 isGeneratingGoal, newsFeed, hookVars, observed, logged, gridEdits,
                 now, outerVars>>

\* The page is loaded again: every cell starts from its initial value, the
\* localStorage item stays.
refApp_reload ==
  /\ loaded
  /\ grid' = createInitialGrid
  /\ selectedTool' = "Road"
  /\ gameStarted' = FALSE
  /\ stats' = INITIAL_STATS
  /\ aiEnabled' = TRUE
  /\ currentGoal' = null
  /\ isGeneratingGoal' = FALSE
  /\ newsFeed' = <<>>
  /\ gridEdits' = 0
  /\ loaded' = FALSE
  /\ UNCHANGED <<isPaused, hookVars, observed, logged, now, storage, newsInFlight, worldVars>>

\* A document an earlier session or an earlier version of the game left
\* behind: any subset of the keys, with a city that differs from the fresh
\* one in every key (a key that is not there holds the fresh value here).
SavedCity ==
  [grid |-> [createInitialGrid EXCEPT ![0][0].buildingType = "Residential"],
   stats |-> [money |-> 900, population |-> 5, day |-> 2],
   aiEnabled |-> FALSE,
   currentGoal |-> stringifyGoal(CHOOSE g \in PlaceGoals :
                                   g # null /\ g.targetType = "building_count"),
   newsFeed |-> <<[id |-> "0", text |-> "Welcome to SkyMetropolis. Terrain generation complete.",
                   type |-> "positive"]>>]

FreshCity ==
  [grid |-> createInitialGrid, stats |-> INITIAL_STATS, aiEnabled |-> TRUE,
   currentGoal |-> null, newsFeed |-> <<>>]

SavedDocs ==
  {NoItem} \cup
  { [item |-> TRUE, has |-> K,
     val |-> [k \in SaveKeys |-> IF k \in K THEN SavedCity[k] ELSE FreshCity[k]]] :
      K \in SUBSET SaveKeys }

SaveInit ==
  /\ grid = createInitialGrid
  /\ selectedTool = "Road"
  /\ gameStarted = FALSE
  /\ isPaused = FALSE
  /\ stats = INITIAL_STATS
  /\ aiEnabled = TRUE
  /\ currentGoal = null
  /\ isGeneratingGoal = FALSE
  /\ newsFeed = <<>>
  /\ inFlight = [clean |-> 0, interrupted |-> 0]
  /\ effectPending = FALSE
  /\ retryWait = FALSE
  /\ observed = <<>>
  /\ logged = <<>>
  /\ gridEdits = 0
  /\ now = 0
  /\ storage \in SavedDocs
  /\ loaded = FALSE
  /\ newsInFlight = 0
  /\ SceneUnmounted

SaveNext ==
  \/ refApp_load
  \/ \E enabled \in BOOLEAN : refApp_handleStart(enabled)
  \/ \E tool \in Tools : refApp_setSelectedTool(tool)
  \/ \E c \in ClickTiles : gridEdits < AppEdits /\ refApp_handleTileClick(c[1], c[2])
  \/ refApp_autoSave
  \/ refApp_reload

SaveSpec == SaveInit /\ [][SaveNext]_vars

\* ------------------------------------------------------------ news feed

\* What the news collaborator may answer: nothing, a headline, or a headline
\* the schema refuses (fewer than 5 characters).
NewsAnswers ==
  { [hasText |-> FALSE, text |-> "", type |-> "neutral"],
    [hasText |-> TRUE, text |-> "Pigeons occupy plaza", type |-> "neutral"],
    [hasText |-> TRUE, text |-> "Hm", type |-> "neutral"] }

NewsResponseSchema(a) ==
  /\ Len(a.text) >= 5 /\ Len(a.text) <= 100
  /\ a.type \in {"positive", "negative", "neutral"}

\* fetchNews up to its await, called by the 10 s newsInterval, which exists
\* while the game is started and not paused.
fetchNews ==
  /\ gameStarted /\ ~isPaused
  /\ aiEnabled
  /\ newsInFlight < MaxInFlight
  /\ newsInFlight' = newsInFlight + 1
  /\ observed' = <<>>
  /\ logged' = <<>>
  /\ UNCHANGED <<storeVars, hookVars, gridEdits, now, storage, loaded, worldVars>>

\* fetchNews after its await: generateNewsEvent answered a; the item it
\* returns carries Date.now() and a random suffix as its id.
newsArrives(a, rnd) ==
  /\ newsInFlight > 0
  /\ newsInFlight' = newsInFlight - 1
  /\ IF a.hasText /\ NewsResponseSchema(a)
       THEN /\ newsFeed' = addNews(newsFeed,
                             [id |-> ToString(now) \o rnd, text |-> a.text, type |-> a.type])
            /\ logged' = <<>>
       ELSE /\ UNCHANGED newsFeed
            /\ logged' = IF a.hasText
                           THEN <<"Validation Error in generateNewsEvent:",
                                  "AI Service Error (News):">>
                           ELSE <<>>
  /\ observed' = <<>>
  /\ UNCHANGED <<grid, selectedTool, gameStarted, isPaused, stats, aiEnabled,
                 currentGoal, isGeneratingGoal, hookVars, gridEdits, now, storage, loaded, worldVars>>

\* A started city whose treasury cannot pay for what the player clicks with
\* the bulldozer or the Road tool, with a completed goal to claim or none.
NewsInit ==
  /\ grid \in {createInitialGrid, [createInitialGrid EXCEPT ![0][0].buildingType = "Road"]}
  /\ selectedTool \in {"None", "Road"}
  /\ gameStarted = TRUE
  /\ isPaused = FALSE
  /\ stats \in [money : {0, DEMOLISH_COST}, population : {0}, day : {1}]
  /\ aiEnabled = TRUE
  /\ currentGoal \in {null} \cup {[g EXCEPT !.completed = TRUE] :
                                    g \in {h \in PlaceGoals \ {null} : h.targetType = "money"}}
  /\ isGeneratingGoal = FALSE
  /\ newsFeed = <<>>
  /\ inFlight = [clean |-> 0, interrupted |-> 0]
  /\ effectPending = FALSE
  /\ retryWait = FALSE
  /\ observed = <<>>
  /\ logged = <<>>
  /\ gridEdits = 0
  /\ now = 0
  /\ storage = NoItem
  /\ loaded = TRUE
  /\ newsInFlight = 0
  /\ SceneUnmounted

\* Everything that adds to the news feed: placements that are refused,
\* claimReward, and the news that the collaborator generates.
NewsNext ==
  \/ \E c \in ClickTiles : gridEdits < AppEdits /\ placeBuilding(c[1], c[2])
  \/ claimReward
  \/ fetchNews
  \/ \E a \in NewsAnswers, rnd \in RandomSuffix : newsArrives(a, rnd)
  \/ TimePasses

NewsSpec == NewsInit /\ [][NewsNext]_vars

\* What the goal asks for, read off the city: the treasury, the population or
\* the number of tiles of the goal's buildingType has reached targetValue.
Reached(g, s, goal) ==
  CASE goal.targetType = "money" -> s.money >= goal.targetValue
    [] goal.targetType = "population" -> s.population >= goal.targetValue
    [] goal.targetType = "building_count" ->
         TilesOf(g, goal.buildingType) >= goal.targetValue

\* C20: checkGoalCompletion is FALSE for an absent or completed goal, and for
\* any other goal TRUE exactly when the money, the population or the count of
\* tiles of goal.buildingType has reached targetValue.
C20_CheckGoalCompletion ==
  checkGoalCompletion(grid, stats, currentGoal)
    <=> IF currentGoal = null THEN FALSE
        ELSE IF currentGoal.completed THEN FALSE
        ELSE Reached(grid, stats, currentGoal)

\* An open building_count goal whose count has just reached its target, with
\* a tile of another type on the grid as well: checkGoalCompletion is TRUE.
C20_CountJustReached ==
  /\ currentGoal # null
  /\ ~currentGoal.completed
  /\ currentGoal.targetType = "building_count"
  /\ TilesOf(grid, currentGoal.buildingType) = currentGoal.targetValue
  /\ TilesOf(grid, "Park") > 0
  /\ checkGoalCompletion(grid, stats, currentGoal)

\* The cell of the ref-based App that the key k of the document is loaded into.
Cell(k) ==
  CASE k = "grid" -> grid
    [] k = "stats" -> stats
    [] k = "aiEnabled" -> aiEnabled
    [] k = "currentGoal" -> stringifyGoal(currentGoal)
    [] k = "newsFeed" -> newsFeed

\* C21: loading restores every key that the saved document has and leaves
\* every cell whose key the document lacks at its freshly initialised value.
C21_LoadRestoresEveryKey ==
  [][(refApp_load /\ storage.item)
       => \A k \in SaveKeys :
            Cell(k)' = IF k \in storage.has THEN storage.val[k] ELSE FreshCity[k]]_vars

\* The state right after a successful claimReward.
JustClaimed ==
  /\ Len(observed) = 1
  /\ observed[1].currentGoal = null
  /\ currentGoal = null
  /\ observed[1].stats = stats
  /\ newsFeed # <<>>
  /\ newsFeed[Len(newsFeed)].type = "positive"

\* The game runs with AI enabled, there is neither a goal nor a fetch, and a
\* render with changed dependencies is due.
GoalWanted ==
  /\ gameStarted /\ aiEnabled /\ ~isPaused
  /\ currentGoal = null /\ ~isGeneratingGoal
  /\ effectPending
  /\ inFlight.clean + inFlight.interrupted < MaxInFlight

\* C22: after a successful claimReward with the game started, AI enabled and
\* not paused a goal fetch is eventually started; and whenever the game
\* runs (again, after a resume) with no goal and no fetch, once its effects
\* run a fetch is started.
C22_FetchFollowsClaim ==
  /\ (JustClaimed /\ gameStarted /\ aiEnabled /\ ~isPaused) ~> isGeneratingGoal
  /\ GoalWanted ~> isGeneratingGoal

\* A reward was claimed while the game was running with AI enabled.
C22_ClaimedWhileRunning ==
  JustClaimed /\ gameStarted /\ aiEnabled /\ ~isPaused /\ ~isGeneratingGoal

C24_IdsDistinct ==
  \A i, j \in DOMAIN newsFeed : i # j => newsFeed[i].id # newsFeed[j].id

\* ------------------------------------------------- the scene's agent systems
\* TrafficSystem caps the vehicles at CAR_CAP (the game: 30), PopulationSystem
\* the pedestrians at AGENT_CAP (the game: 300).
CAR_CAP == 3
AGENT_CAP == 2
\* A vehicle's progress is counted in halves of a tile: ONE is the progress 1,
\* SPEED the getRandomRange(0.01, 0.03) that is added every frame.
ONE == 2
SPEED == 1
\* A pedestrian's coordinate is counted in halves of a tile as well: tile t
\* with the offset getRandomRange(-0.4, 0.4) is 2 * t + j; Jitter holds the
\* pairs of offsets that are drawn for a point.
Jitter == {<<0, 0>>, <<1, 1>>}
\* The player edits the city under a mounted scene WorldEdits times.
WorldEdits == 1

\* grid.forEach(row => row.forEach(tile => ...)) collecting the tiles whose
\* buildingType is one of types, from tile index k on.
RECURSIVE tilesOf(_, _, _)
tilesOf(g, types, k) ==
  IF k >= GRID_SIZE * GRID_SIZE
    THEN <<>>
    ELSE LET y == k \div GRID_SIZE
             x == k % GRID_SIZE
         IN (IF g[y][x].buildingType \in types THEN <<[x |-> x, y |-> y]>> ELSE <<>>)
              \o tilesOf(g, types, k + 1)

roadTiles == tilesOf(grid, {"Road"}, 0)
walkableTiles == tilesOf(grid, {"Road", "Park", "None"}, 0)

carCount == Min(Len(roadTiles), CAR_CAP)
agentCount == Min(stats.population \div 2, AGENT_CAP)

\* The instanced meshes that the two systems render: none when TrafficSystem
\* returns null (fewer than two roads) or PopulationSystem does (no agent).
carsRendered == IF Len(roadTiles) < 2 THEN 0 ELSE carCount
agentsRendered == agentCount

Elements(seq) == {seq[i] : i \in DOMAIN seq}

\* The six values of vehicle or pedestrian i are written into the buffer;
\* a Float32Array ignores a write beyond its length.
writeSlots(buf, i, six) ==
  [k \in DOMAIN buf |-> IF k > i * 6 /\ k <= i * 6 + 6 THEN six[k - i * 6] ELSE buf[k]]

\* new Float32Array(n * 6) filled by the loop of a regeneration effect.
RECURSIVE flatten(_)
flatten(records) ==
  IF records = <<>> THEN <<>> ELSE Head(records) \o flatten(Tail(records))

\* The regeneration effect of TrafficSystem: it runs after a render whose
\* roadTiles (recomputed with every new grid) or carCount changed.
TrafficSystem_useEffect ==
  /\ carsDeps # grid
  /\ carsDeps' = grid
  /\ IF Len(roadTiles) < 2
       THEN UNCHANGED carsState
       ELSE \E start \in [1 .. carCount -> Elements(roadTiles)] :
              carsState' = flatten([i \in 1 .. carCount |->
                 <<start[i].x, start[i].y, start[i].x, start[i].y, ONE, SPEED>>])
  /\ UNCHANGED <<storeVars, hookVars, observed, logged, gridEdits, now,
                 storage, loaded, newsInFlight, worldModule, agentsState, agentsDeps>>

\* The road tiles next to (x, y): roadTiles.filter(...) of the frame step.
neighbors(x, y) ==
  LET adjacent(t) == \/ ((t.x - x = 1 \/ x - t.x = 1) /\ t.y = y)
                     \/ ((t.y - y = 1 \/ y - t.y = 1) /\ t.x = x)
  IN SelectSeq(roadTiles, adjacent)

\* One turn of the loop of useFrame for vehicle i, in the IsoMap module: the
\* buffers it may leave.  A vehicle whose slots lie beyond the buffer reads
\* undefined, computes NaN and writes nothing.
IsoMap_stepCar(buf, i) ==
  IF i * 6 + 6 > Len(buf) THEN {buf}
  ELSE LET curX == buf[i * 6 + 1]
           curY == buf[i * 6 + 2]
           tarX == buf[i * 6 + 3]
           tarY == buf[i * 6 + 4]
           progress == buf[i * 6 + 5] + buf[i * 6 + 6]
           speed == buf[i * 6 + 6]
           near == neighbors(tarX, tarY)
           notBack(n) == n.x # curX \/ n.y # curY
           valid == IF Len(near) > 1 THEN SelectSeq(near, notBack) ELSE near
       IN IF progress >= ONE
            THEN IF Len(near) > 0
                   THEN {writeSlots(buf, i, <<tarX, tarY, next.x, next.y, 0, speed>>) :
                           next \in (IF Len(valid) > 0 THEN Elements(valid) ELSE {near[1]})}
                   ELSE {writeSlots(buf, i, <<rnd.x, rnd.y, rnd.x, rnd.y, 0, speed>>) :
                           rnd \in Elements(roadTiles)}
            ELSE {writeSlots(buf, i, <<curX, curY, tarX, tarY, progress, speed>>)}

\* The same turn in the Entities module: any neighbour, and roadTiles[0]
\* when there is none.
Entities_stepCar(buf, i) ==
  IF i * 6 + 6 > Len(buf) THEN {buf}
  ELSE LET curX == buf[i * 6 + 1]
           curY == buf[i * 6 + 2]
           tarX == buf[i * 6 + 3]
           tarY == buf[i * 6 + 4]
           progress == buf[i * 6 + 5] + buf[i * 6 + 6]
           speed == buf[i * 6 + 6]
           near == neighbors(tarX, tarY)
       IN IF progress >= ONE
            THEN {writeSlots(buf, i, <<tarX, tarY, next.x, next.y, 0, speed>>) :
                    next \in (IF Len(near) > 0 THEN Elements(near) ELSE {roadTiles[1]})}
            ELSE {writeSlots(buf, i, <<curX, curY, tarX, tarY, progress, speed>>)}

stepCar(buf, i) ==
  IF worldModule = "IsoMap" THEN IsoMap_stepCar(buf, i) ELSE Entities_stepCar(buf, i)

\* for (let i = 0; i < carCount; i++) from vehicle i on.
RECURSIVE carsLoop(_, _)
carsLoop(buf, i) ==
  IF i >= carCount THEN {buf}
  ELSE UNION {carsLoop(b, i + 1) : b \in stepCar(buf, i)}

\* The frame callback of TrafficSystem, once it is past its guard.  It sees
\* the roadTiles and carCount of the last render; carsRef.current is the mesh
\* of that render.
TrafficSystem_useFrame ==
  /\ carsRendered > 0
  /\ Len(roadTiles) >= 2
  /\ Len(carsState) # 0
  /\ carsState' \in carsLoop(carsState, 0)
  /\ UNCHANGED <<storeVars, hookVars, observed, logged, gridEdits, now,
                 storage, loaded, newsInFlight, worldModule, carsDeps, agentsState, agentsDeps>>

\* A pedestrian's point on tile t with the offsets j.
spot(t, j) == <<2 * t.x + j[1], 2 * t.y + j[2]>>
Spots == {spot(t, j) : t \in Elements(walkableTiles), j \in Jitter}

\* The regeneration effect of PopulationSystem, after a render whose
\* agentCount or walkableTiles changed.
PopulationSystem_useEffect ==
  /\ agentsDeps # <<agentCount, grid>>
  /\ agentsDeps' = <<agentCount, grid>>
  /\ IF agentCount = 0 \/ Len(walkableTiles) = 0
       THEN UNCHANGED agentsState
       ELSE \E at \in [1 .. agentCount -> Spots], to \in [1 .. agentCount -> Spots] :
              agentsState' = flatten([i \in 1 .. agentCount |->
                 <<at[i][1], at[i][2], to[i][1], to[i][2], SPEED, 0>>])
  /\ UNCHANGED <<storeVars, hookVars, observed, logged, gridEdits, now,
                 storage, loaded, newsInFlight, worldModule, carsState, carsDeps>>

\* One turn of the loop of PopulationSystem's useFrame for pedestrian i: at
\* its target it draws a new one, otherwise it walks (the frames of a walk
\* are taken together).
stepAgent(buf, i) ==
  IF i * 6 + 6 > Len(buf) THEN {buf}
  ELSE LET x == buf[i * 6 + 1]
           y == buf[i * 6 + 2]
           tx == buf[i * 6 + 3]
           ty == buf[i * 6 + 4]
       IN IF x = tx /\ y = ty
            THEN IF Len(walkableTiles) > 0
                   THEN {writeSlots(buf, i, <<x, y, tt[1], tt[2], buf[i * 6 + 5], buf[i * 6 + 6]>>) :
                           tt \in Spots}
                   ELSE {buf}
            ELSE {writeSlots(buf, i, <<tx, ty, tx, ty, buf[i * 6 + 5], buf[i * 6 + 6]>>)}

RECURSIVE agentsLoop(_, _)
agentsLoop(buf, i) ==
  IF i >= agentCount THEN {buf}
  ELSE UNION {agentsLoop(b, i + 1) : b \in stepAgent(buf, i)}

PopulationSystem_useFrame ==
  /\ agentsRendered > 0
  /\ agentCount # 0
  /\ Len(agentsState) # 0
  /\ agentsState' \in agentsLoop(agentsState, 0)
  /\ UNCHANGED <<storeVars, hookVars, observed, logged, gridEdits, now,
                 storage, loaded, newsInFlight, worldModule, carsState, carsDeps, agentsDeps>>

\* The scene is mounted over a grid of roads and empty tiles in a city
\* without people; no effect has run yet.
TrafficGrids ==
  { [y \in Coord |-> [x \in Coord |->
       [x |-> x, y |-> y, buildingType |-> f[y * GRID_SIZE + x]]]] :
    f \in [0 .. (GRID_SIZE * GRID_SIZE - 1) -> {"None", "Road"}] }

TrafficInit ==
  /\ grid \in TrafficGrids
  /\ selectedTool \in {"None", "Road"}
  /\ gameStarted = TRUE
  /\ isPaused = FALSE
  /\ stats = [money |-> INITIAL_MONEY, population |-> 0, day |-> 1]
  /\ aiEnabled = FALSE
  /\ currentGoal = null
  /\ isGeneratingGoal = FALSE
  /\ newsFeed = <<>>
  /\ inFlight = [clean |-> 0, interrupted |-> 0]
  /\ effectPending = FALSE
  /\ retryWait = FALSE
  /\ observed = <<>>
  /\ logged = <<>>
  /\ gridEdits = 0
  /\ now = 0
  /\ storage = NoItem
  /\ loaded = TRUE
  /\ newsInFlight = 0
  /\ worldModule \in {"IsoMap", "Entities"}
  /\ carsState = <<>>
  /\ carsDeps = <<>>
  /\ agentsState = <<>>
  /\ agentsDeps = <<>>

\* React runs the effects of a render before it renders again; frames come
\* at any time.
TrafficNext ==
  \/ \E x \in Coord, y \in Coord :
       carsDeps = grid /\ gridEdits < WorldEdits /\ placeBuilding(x, y)
  \/ TrafficSystem_useEffect
  \/ TrafficSystem_useFrame

TrafficSpec == TrafficInit /\ [][TrafficNext]_vars

\* The IsoMap scene with both systems, mounted over a city of 0, 2 or
\* 2 * AGENT_CAP people whose first two tiles hold nothing, a road or a house
\* and whose other tiles are built over; the player edits the first row.
CrowdGrids ==
  { [y \in Coord |-> [x \in Coord |->
       [x |-> x, y |-> y,
        buildingType |-> IF y * GRID_SIZE + x < 2
                           THEN f[y * GRID_SIZE + x] ELSE "Residential"]]] :
    f \in [0 .. 1 -> {"None", "Road", "Residential"}] }

CrowdInit ==
  /\ grid \in CrowdGrids
  /\ selectedTool \in {"None", "Road"}
  /\ gameStarted = TRUE
  /\ isPaused = FALSE
  /\ stats \in [money : {INITIAL_MONEY}, population : {0, 2, 2 * AGENT_CAP}, day : {1}]
  /\ aiEnabled = FALSE
  /\ currentGoal = null
  /\ isGeneratingGoal = FALSE
  /\ newsFeed = <<>>
  /\ inFlight = [clean |-> 0, interrupted |-> 0]
  /\ effectPending = FALSE
  /\ retryWait = FALSE
  /\ observed = <<>>
  /\ logged = <<>>
  /\ gridEdits = 0
  /\ now = 0
  /\ storage = NoItem
  /\ loaded = TRUE
  /\ newsInFlight = 0
  /\ worldModule = "IsoMap"
  /\ carsState = <<>>
  /\ carsDeps = <<>>
  /\ agentsState = <<>>
  /\ agentsDeps = <<>>

CrowdNext ==
  \/ \E x \in Coord, y \in {0} :
       /\ carsDeps = grid /\ agentsDeps = <<agentCount, grid>>
       /\ gridEdits < WorldEdits
       /\ placeBuilding(x, y)
  \/ TrafficSystem_useEffect
  \/ PopulationSystem_useEffect
  \/ TrafficSystem_useFrame
  \/ PopulationSystem_useFrame

CrowdSpec == CrowdInit /\ [][CrowdNext]_vars

\* ------------------------------------------------------------ C25 .. C28
RoadAt(x, y) == x \in Coord /\ y \in Coord /\ grid[y][x].buildingType = "Road"
Roads == {t \in Coord \X Coord : RoadAt(t[1], t[2])}
Walkable == {t \in Coord \X Coord :
               grid[t[2]][t[1]].buildingType \in {"Road", "Park", "None"}}
\* The roads one step north, south, east or west of (x, y).
RoadsBeside(x, y) ==
  {t \in Roads : (t[1] - x) * (t[1] - x) + (t[2] - y) * (t[2] - y) = 1}

\* C25: the agents never outnumber the tiles they move on: the vehicles are
\* min(number of Road tiles, cap), the pedestrians at most the number of
\* Road, Park and empty tiles, whatever the grid and the population.
C25_AgentsWithinTiles ==
  /\ carCount = Min(Cardinality(Roads), CAR_CAP)
  /\ carsRendered <= Cardinality(Roads)
  /\ agentsRendered <= Cardinality(Walkable)

\* C26: with fewer than two Road tiles no vehicle is emitted and no frame
\* changes the vehicles; with fewer than two Road, Park and empty tiles no
\* pedestrian is emitted and no frame changes the pedestrians.
C26_DisabledBelowTwoTiles ==
  /\ [](Cardinality(Roads) < 2 => carsRendered = 0)
  /\ [](Cardinality(Walkable) < 2 => agentsRendered = 0)
  /\ [][Cardinality(Roads) < 2 /\ TrafficSystem_useFrame => carsState' = carsState]_vars
  /\ [][Cardinality(Walkable) < 2 /\ PopulationSystem_useFrame
          => agentsState' = agentsState]_vars

\* C27: a vehicle whose progress reaches 1 in a frame is moved to its
\* target with progress 0 and is given a Road tile beside it as its new
\* target; where two or more roads lie beside it, never the tile it has just
\* left; where none does, it stands on a Road tile of the grid afterwards.
C27_VehicleTurns ==
  [][TrafficSystem_useFrame =>
       \A i \in 0 .. (carCount - 1) :
         (i * 6 + 6 <= Len(carsState)
            /\ carsState[i * 6 + 5] + carsState[i * 6 + 6] >= ONE) =>
           LET curX == carsState[i * 6 + 1]
               curY == carsState[i * 6 + 2]
               tarX == carsState[i * 6 + 3]
               tarY == carsState[i * 6 + 4]
               beside == RoadsBeside(tarX, tarY)
           IN /\ carsState'[i * 6 + 5] = 0
              /\ beside # {} =>
                   /\ carsState'[i * 6 + 1] = tarX /\ carsState'[i * 6 + 2] = tarY
                   /\ <<carsState'[i * 6 + 3], carsState'[i * 6 + 4]>> \in beside
              /\ Cardinality(beside) >= 2 =>
                   <<carsState'[i * 6 + 3], carsState'[i * 6 + 4]>> # <<curX, curY>>
              /\ beside = {} =>
                   <<carsState'[i * 6 + 1], carsState'[i * 6 + 2]>> \in Roads]_vars

\* C28: every frame that moves the vehicles finds a buffer of exactly
\* 6 * min(number of Road tiles, cap) values in which every vehicle's
\* current tile and target tile are Road tiles of the grid as it is now.
C28_FrameSeesFreshBuffer ==
  [][TrafficSystem_useFrame =>
       /\ Len(carsState) = 6 * Min(Cardinality(Roads), CAR_CAP)
       /\ \A i \in 0 .. (carCount - 1) :
            /\ i * 6 + 6 <= Len(carsState)
            /\ <<carsState[i * 6 + 1], carsState[i * 6 + 2]>> \in Roads
            /\ <<carsState[i * 6 + 3], carsState[i * 6 + 4]>> \in Roads]_vars

\* ------------------------------------------ goal fetches of the ref-based App
\* fetchNewGoal of the ref-based App up to its first await.  closureFlag is
\* the isGeneratingGoal its closure captured.
refApp_fetchNewGoal(closureFlag) ==
  IF closureFlag \/ ~aiEnabled
    THEN UNCHANGED <<isGeneratingGoal, inFlight>>
    ELSE /\ inFlight.clean + inFlight.interrupted < MaxInFlight
         /\ isGeneratingGoal' = TRUE
         /\ inFlight' = [inFlight EXCEPT !.clean = @ + 1]

\* The "Initial Setup" effect, after the render in which gameStarted turned
\* true: the welcome item, and the first goal request when the AI is on.
refApp_InitialSetup ==
  /\ loaded /\ gameStarted
  /\ effectPending
  /\ effectPending' = FALSE
  /\ newsFeed' = addNews(newsFeed,
       NewsItem("Welcome to SkyMetropolis. Terrain generation complete.", "positive"))
  /\ IF aiEnabled
       THEN refApp_fetchNewGoal(isGeneratingGoal)
       ELSE UNCHANGED <<isGeneratingGoal, inFlight>>
  /\ UNCHANGED <<grid, selectedTool, gameStarted, isPaused, stats, aiEnabled, currentGoal,
                 retryWait, observed, logged, gridEdits, now, outerVars>>

\* fetchNewGoal of the ref-based App after its awaits.  The collaborator
\* answered r: a goal is installed, null arms the 5 s retry, and both clear
\* the flag; an exception leaves the function at the await.
refApp_goalArrives(r) ==
  /\ inFlight.clean > 0
  /\ inFlight' = [inFlight EXCEPT !.clean = @ - 1]
  /\ LET result == generateCityGoal(r) IN
       CASE result.kind = "goal" ->
              /\ currentGoal' = result.goal
              /\ isGeneratingGoal' = FALSE
              /\ UNCHANGED retryWait
         [] result.kind = "null" ->
              /\ retryWait' = (retryWait \/ aiEnabled)
              /\ isGeneratingGoal' = FALSE
              /\ UNCHANGED currentGoal
         [] result.kind = "throw" ->
              UNCHANGED <<currentGoal, isGeneratingGoal, retryWait>>
  /\ UNCHANGED <<grid, selectedTool, gameStarted, isPaused, stats, aiEnabled, newsFeed,
                 effectPending, observed, logged, gridEdits, now, outerVars>>

\* setTimeout(fetchNewGoal, 5000): the retry calls the closure that armed
\* it, whose isGeneratingGoal is the false it started with.
refApp_retryTimer ==
  /\ retryWait
  /\ retryWait' = FALSE
  /\ refApp_fetchNewGoal(FALSE)
  /\ UNCHANGED <<grid, selectedTool, gameStarted, isPaused, stats, aiEnabled, currentGoal,
                 newsFeed, effectPending, observed, logged, gridEdits, now, outerVars>>

\* The ref-based App just after handleStart: the game is started with the
\* AI on or off and the setup effect is due.
RefFetchInit ==
  /\ grid = createInitialGrid
  /\ selectedTool = "Road"
  /\ gameStarted = TRUE
  /\ isPaused = FALSE
  /\ stats = INITIAL_STATS
  /\ aiEnabled \in BOOLEAN
  /\ currentGoal = null
  /\ isGeneratingGoal = FALSE
  /\ newsFeed = <<>>
  /\ inFlight = [clean |-> 0, interrupted |-> 0]
  /\ effectPending = TRUE
  /\ retryWait = FALSE
  /\ observed = <<>>
  /\ logged = <<>>
  /\ gridEdits = 0
  /\ now = 0
  /\ storage = NoItem
  /\ loaded = TRUE
  /\ newsInFlight = 0
  /\ SceneUnmounted

RefFetchNext ==
  \/ refApp_InitialSetup
  \/ \E r \in Responses : refApp_goalArrives(r)
  \/ refApp_retryTimer
  \/ \E tool \in Tools : refApp_setSelectedTool(tool)
  \/ \E c \in ClickTiles : gridEdits < AppEdits /\ refApp_handleTileClick(c[1], c[2])
  \/ TimePasses

\* Every call of the collaborator ends: it answers or fails.
RefFetchSpec ==
  /\ RefFetchInit
  /\ [][RefFetchNext]_vars
  /\ WF_vars(refApp_InitialSetup)
  /\ WF_vars(\E r \in Responses : refApp_goalArrives(r))

\* C29: a goal fetch that has raised isGeneratingGoal lowers it again,
\* whatever the collaborator did, and the flag is never up while no fetch is
\* outstanding.
C29_FlagComesDown ==
  /\ isGeneratingGoal ~> ~isGeneratingGoal
  /\ [](isGeneratingGoal => inFlight.clean + inFlight.interrupted > 0)

\* ------------------------------------------- the store with inline logic
\* calculateNextDay of lib/simulation.ts: the cap of 50 people a house and
\* the decay of 5 people a day are written out.
gameStore_calculateNextDay_decay4(currentStats, g) ==
  LET acc == gridPass(g, 0)
      maxPop == acc.residentialCount * 50
      grown == currentStats.population + acc.dailyPopGrowth
      capped == IF grown > maxPop THEN maxPop ELSE grown
      newPop == IF acc.residentialCount = 0 /\ currentStats.population > 0
                  THEN Max(0, currentStats.population - 4)
                  ELSE capped
  IN [money |-> currentStats.money + acc.dailyIncome,
      population |-> newPop,
      day |-> currentStats.day + 1]

gameStore_calculateNextDay(currentStats, g) ==
  LET acc == gridPass(g, 0)
      maxPop == acc.residentialCount * 50
      grown == currentStats.population + acc.dailyPopGrowth
      capped == IF grown > maxPop THEN maxPop ELSE grown
      newPop == IF acc.residentialCount = 0 /\ currentStats.population > 0
                  THEN Max(0, currentStats.population - 5)
                  ELSE capped
  IN [money |-> currentStats.money + acc.dailyIncome,
      population |-> newPop,
      day |-> currentStats.day + 1]

\* canAffordBuilding of lib/simulation.ts: BUILDINGS[type]?.cost || 0.
canAffordBuilding(currentMoney, type) ==
  currentMoney >= (IF type \in DOMAIN BUILDINGS THEN BUILDINGS[type].cost ELSE 0)

\* What a command of gameStore.ts leaves in the store, as the record of the
\* four slices that the commands write.
StoreOf(g, s, goal, feed) == [grid |-> g, stats |-> s, currentGoal |-> goal, newsFeed |-> feed]

gameStore_addNews(feed, news) ==
  (IF Len(feed) <= NEWS_KEPT THEN feed
   ELSE SubSeq(feed, Len(feed) - NEWS_KEPT + 1, Len(feed))) \o <<news>>

gameStore_placeBuilding(x, y) ==
  LET tile == grid[y][x]
      config == BUILDINGS[selectedTool]
      demolishCost == 5
      item(text) == [id |-> ToString(now), text |-> text, type |-> "negative"]
  IN IF isPaused THEN StoreOf(grid, stats, currentGoal, newsFeed)
     ELSE IF selectedTool = "None"
       THEN IF tile.buildingType # "None"
              THEN IF stats.money >= demolishCost
                     THEN StoreOf([grid EXCEPT ![y][x].buildingType = "None"],
                                  [stats EXCEPT !.money = @ - demolishCost],
                                  currentGoal, newsFeed)
                     ELSE StoreOf(grid, stats, currentGoal,
                                  gameStore_addNews(newsFeed, item("Cannot afford demolition.")))
              ELSE StoreOf(grid, stats, currentGoal, newsFeed)
     ELSE IF tile.buildingType = "None"
       THEN IF canAffordBuilding(stats.money, selectedTool)
              THEN StoreOf([grid EXCEPT ![y][x].buildingType = selectedTool],
                           [stats EXCEPT !.money = @ - config.cost],
                           currentGoal, newsFeed)
              ELSE StoreOf(grid, stats, currentGoal,
                           gameStore_addNews(newsFeed,
                             item("Insufficient funds for " \o config.name \o ".")))
     ELSE StoreOf(grid, stats, currentGoal, newsFeed)

\* tick of gameStore.ts, with its goal check over buildingCounts written out.
gameStore_tick ==
  IF isPaused THEN StoreOf(grid, stats, currentGoal, newsFeed)
  ELSE LET newStats == gameStore_calculateNextDay(stats, grid)
           buildingCounts(type) ==
             Cardinality({c \in Coord \X Coord : grid[c[2]][c[1]].buildingType = type})
           isMet ==
             \/ currentGoal.targetType = "money" /\ newStats.money >= currentGoal.targetValue
             \/ currentGoal.targetType = "population"
                  /\ newStats.population >= currentGoal.targetValue
             \/ currentGoal.targetType = "building_count"
                  /\ currentGoal.buildingType # undefined
                  /\ buildingCounts(currentGoal.buildingType) >= currentGoal.targetValue
           updatedGoal ==
             IF aiEnabled /\ currentGoal # null /\ ~currentGoal.completed /\ isMet
               THEN [currentGoal EXCEPT !.completed = TRUE]
               ELSE currentGoal
       IN StoreOf(grid, newStats, updatedGoal, newsFeed)

gameStore_claimReward ==
  IF currentGoal # null /\ currentGoal.completed
    THEN StoreOf(grid, [stats EXCEPT !.money = @ + currentGoal.reward], null,
                 gameStore_addNews(newsFeed,
                   [id |-> ToString(now),
                    text |-> "Goal achieved! " \o ToString(currentGoal.reward) \o " collected.",
                    type |-> "positive"]))
    ELSE StoreOf(grid, stats, currentGoal, newsFeed)

gameStore_resetGame == StoreOf(createInitialGrid, INITIAL_STATS, null, <<>>)

\* setTool and togglePause of gameStore.ts write selectedTool and isPaused
\* only.
gameStore_setTool(tool) == StoreOf(grid, stats, currentGoal, newsFeed)
gameStore_togglePause == StoreOf(grid, stats, currentGoal, newsFeed)

\* The cities the commands of the two stores are compared on: nothing, a
\* house or a park on the first tile, an empty or a full treasury, nobody or
\* a few people more than a day without housing takes away.
EquivGrids ==
  {createInitialGrid} \cup
  {[createInitialGrid EXCEPT ![0][0].buildingType = t] : t \in {"Residential", "Park"}}

EquivGoals ==
  {g \in SimGoals : g = null \/ (g.targetValue # 2 /\ (g.completed => g.targetType = "money"))}

EquivInit ==
  /\ grid \in EquivGrids
  /\ stats \in [money : {0, INITIAL_MONEY}, population : {0, NO_HOUSING_DECAY + 2}, day : {1}]
  /\ selectedTool = "Road"
  /\ gameStarted = TRUE
  /\ isPaused = FALSE
  /\ aiEnabled \in BOOLEAN
  /\ currentGoal \in EquivGoals
  /\ isGeneratingGoal = FALSE
  /\ newsFeed = <<>>
  /\ inFlight = [clean |-> 0, interrupted |-> 0]
  /\ effectPending = FALSE
  /\ retryWait = FALSE
  /\ observed = <<>>
  /\ logged = <<>>
  /\ gridEdits = 0
  /\ now = 0
  /\ storage = NoItem
  /\ loaded = TRUE
  /\ newsInFlight = 0
  /\ SceneUnmounted

EquivNext ==
  \/ \E tool \in Tools : setTool(tool)
  \/ \E c \in ClickTiles : gridEdits < AppEdits /\ placeBuilding(c[1], c[2])
  \/ stats.day < MaxDay /\ tick
  \/ togglePause
  \/ claimReward
  \/ resetGame

EquivSpec == EquivInit /\ [][EquivNext]_vars

\* The four slices after a step.
StoreAfter == StoreOf(grid, stats, currentGoal, newsFeed)'

\* C30: every command of the delegating store leaves the grid, stats,
\* currentGoal and newsFeed that the same command of the store with inline
\* logic leaves from the same state; addNews is compared in the commands
\* that call it.
C30_StoresAgree ==
  /\ [][\A tool \in Tools : setTool(tool) => StoreAfter = gameStore_setTool(tool)]_vars
  /\ [][\A c \in ClickTiles :
          placeBuilding(c[1], c[2]) => StoreAfter = gameStore_placeBuilding(c[1], c[2])]_vars
  /\ [][tick => StoreAfter = gameStore_tick]_vars
  /\ [][togglePause => StoreAfter = gameStore_togglePause]_vars
  /\ [][claimReward => StoreAfter = gameStore_claimReward]_vars
  /\ [][resetGame => StoreAfter = gameStore_resetGame]_vars

\* Both stores have refused a placement for want of money, and a day without
\* housing has taken people away.
C30_RefusedAndDecayed ==
  /\ stats.day > 1
  /\ stats.population = 2
  /\ newsFeed # <<>>
  /\ newsFeed[Len(newsFeed)].type = "negative"

====
